---- MODULE Spec2Model ----
(***************************************************************************)
(* A model of src/src/facebook_crawling.py.                                *)
(*                                                                         *)
(* Three state machines share the module, one per function under study:    *)
(*   SpecBatch   - run_facebook_crawling (validation, browser lifetime,    *)
(*                 the loop over the URLs, crawl_facebook_post's result);  *)
(*   SpecScroll  - extract_comments (the two clicks, the scroll loop and   *)
(*                 the extraction of the rendered comments);               *)
(*   SpecMetrics - extract_engagement_metrics (reactions, comments and     *)
(*                 shares read from the page).                             *)
(* The browser (Playwright) is the environment: every call into it may     *)
(* return or raise, and the page it shows is drawn from small sets.        *)
(***************************************************************************)
EXTENDS Integers, Sequences, FiniteSets, TLC

VARIABLES
    \* ---- run_facebook_crawling
    post_links,        \* the argument: a sequence of URLs
    links_none,        \* TRUE when the argument is None
    on_progress,       \* "none" (no callback) or "callback"
    pc,                \* position in run_facebook_crawling
    i,                 \* enumerate(post_links, 1)'s index
    posts_summary,     \* list of summary rows
    all_comments,      \* list of comment rows
    browser,           \* "none" | "open" | "closed"
    launches,          \* number of p.chromium.launch calls
    closes,            \* number of browser.close calls
    gotos,             \* number of page.goto calls
    progress_calls,    \* history: the arguments of every on_progress call
    crawl_log,         \* history: per processed URL, what the crawl gave
    outcome,           \* "running" | "returned" | "ValueError" | "raised"
    \* ---- extract_comments
    spc,               \* position in extract_comments
    container,         \* the page's comment list: [initial, total, inc, stalls]
    loaded,            \* comments rendered so far (scrollHeight, in rows)
    previous_height,
    current_height,
    iter,              \* iterations of "for _ in range(1000)" entered
    scrolls,           \* scrollBy calls made
    nudges,            \* of these, the 2500 nudges
    exit_reason,       \* "none" | "stable" | "cap" | "error"
    comments,          \* number of entries of the returned list, -1 before
    read_failed,       \* elements whose inner_text raised during extraction
    \* ---- extract_engagement_metrics
    mpc,               \* position in extract_engagement_metrics
    page,              \* what the page shows for the three metrics
    metrics,           \* the metrics dict
    share_idx,         \* index into possible_share_spans.all()
    mresult            \* "running" | "returned" | "raised"

batchVars == <<post_links, links_none, on_progress, pc, i, posts_summary,
               all_comments, browser, launches, closes, gotos,
               progress_calls, crawl_log, outcome>>
scrollVars == <<spc, container, loaded, previous_height, current_height,
                iter, scrolls, nudges, exit_reason, comments,
                read_failed>>
metricVars == <<mpc, page, metrics, share_idx, mresult>>
vars == <<batchVars, scrollVars, metricVars>>

\* -------------------------------------------------------------- bounds
MaxUrls == 2
MaxComments == 2
MaxInitial == 2
MaxReadFail == 1
MaxShareSpans == 2
FixtureTotal == 1500

\* ------------------------------------------------------------- helpers
SeqsUpTo(S, n) == UNION {[1..k -> S] : k \in 0..n}

RECURSIVE Flatten(_)
Flatten(ss) == IF ss = <<>> THEN <<>> ELSE Head(ss) \o Flatten(Tail(ss))

\* ====================================================================
\* check_post_links: re.match(r"https?://www\.facebook\.com/[^/]+/posts/[\w\d]+")
\* A URL is kept in parts: scheme "://" host "/" handle "/" kind "/" id,
\* the id as its characters; re.match anchors at the start only, so what
\* follows the first word character of the id is free.
\* ====================================================================
WordChars == {"0", "1", "2", "3", "4", "5", "6", "7", "8", "9",
              "a", "b", "c", "_"}

Urls == {
    [scheme |-> "https", host |-> "www.facebook.com", handle |-> "someuser",
     kind |-> "posts", id |-> <<"1", "2", "3", "4", "a", "b", "c">>],
    [scheme |-> "http", host |-> "www.facebook.com", handle |-> "page",
     kind |-> "posts", id |-> <<"9", "?", "x">>],
    [scheme |-> "https", host |-> "www.facebook.com", handle |-> "someuser",
     kind |-> "photos", id |-> <<"1", "2", "3", "4">>],
    [scheme |-> "https", host |-> "m.facebook.com", handle |-> "",
     kind |-> "posts", id |-> <<"-", "1">>] }

MatchesPostUrl(link) ==
    /\ link.scheme \in {"http", "https"}
    /\ link.host = "www.facebook.com"
    /\ link.handle # ""
    /\ link.kind = "posts"
    /\ Len(link.id) >= 1
    /\ link.id[1] \in WordChars

\* variant: only the first link is matched
check_post_links_first_only(links, none) ==
    IF none \/ links = <<>> THEN "ValueError"
    ELSE IF ~MatchesPostUrl(links[1]) THEN "ValueError"
    ELSE "ok"

\* "ok" (returns True) or "ValueError"
check_post_links(links, none) ==
    IF none \/ links = <<>> THEN "ValueError"
    ELSE IF \E k \in 1..Len(links) : ~MatchesPostUrl(links[k]) THEN "ValueError"
    ELSE "ok"

\* ====================================================================
\* crawl_facebook_post: goto, wait, the four extractors; any Exception is
\* re-raised as RuntimeError. "env" is what the browser does for this URL:
\* goto answers, times out, or is cut by a BaseException ("interrupt",
\* which except Exception lets through); an extractor may let an
\* exception escape; the comments are those extract_comments returns.
\* ====================================================================
CommentTexts == {"a", "b"}

PageEnvs ==
    [goto : {"ok"}, extract : {"ok"},
     comments : SeqsUpTo(CommentTexts, MaxComments)]
    \cup [goto : {"timeout", "interrupt"}, extract : {"ok"}, comments : {<<>>}]
    \cup [goto : {"ok"}, extract : {"raise"}, comments : {<<>>}]

\* author, content and the three counts as the extractors read them; they
\* are carried through to the summary row unchanged
PostFields(url) ==
    [author |-> url.handle, content |-> "text",
     reactions_count |-> Len(url.id), comments_count |-> 0, shares_count |-> 0]

crawl_facebook_post(url, env) ==
    IF env.goto = "interrupt" THEN [kind |-> "BaseException"]
    ELSE IF env.goto = "timeout" \/ env.extract = "raise"
    THEN [kind |-> "RuntimeError"]
    ELSE [kind |-> "data", url |-> url,
          author |-> PostFields(url).author,
          content |-> PostFields(url).content,
          reactions_count |-> PostFields(url).reactions_count,
          comments_count |-> PostFields(url).comments_count,
          shares_count |-> PostFields(url).shares_count,
          comments |-> [k \in 1..Len(env.comments) |->
                           [comments_text |-> env.comments[k]]]]

SummaryRow(data) ==
    [url |-> data.url, author |-> data.author, content |-> data.content,
     reactions_count |-> data.reactions_count,
     comments_count |-> data.comments_count,
     shares_count |-> data.shares_count,
     total_comments_crawled |-> Len(data.comments)]

\* variant: no "" row for a post without comments
CommentRowsNoPlaceholder(data) ==
    [k \in 1..Len(data.comments) |->
        [url |-> data.url, comment_text |-> data.comments[k].comments_text]]

\* lines 317-327: one row per comment, or the single "" row
CommentRows(data) ==
    IF data.comments # <<>>
    THEN [k \in 1..Len(data.comments) |->
            [url |-> data.url, comment_text |-> data.comments[k].comments_text]]
    ELSE <<[url |-> data.url, comment_text |-> ""]>>

\* ====================================================================
\* run_facebook_crawling
\* ====================================================================
\* the values the variables of the functions not running keep
Hidden == [vis |-> "hidden", read |-> "ok", text |-> <<>>]
IdlePage == [wait |-> "ok", reaction |-> Hidden, comments |-> <<Hidden, Hidden>>,
             shares_all |-> "ok", shares |-> <<>>]

ScrollIdle ==
    /\ spc = "idle" /\ container = [initial |-> 0, total |-> 0, inc |-> 0, stalls |-> FALSE]
    /\ loaded = 0 /\ previous_height = 0 /\ current_height = 0
    /\ iter = 0 /\ scrolls = 0 /\ nudges = 0 /\ exit_reason = "none"
    /\ comments = -1 /\ read_failed = 0

MetricsIdle ==
    /\ mpc = "idle"
    /\ page = IdlePage
    /\ metrics = [reactions_count |-> 0, comments_count |-> 0, shares_count |-> 0]
    /\ share_idx = 0 /\ mresult = "running"

BatchIdle ==
    /\ post_links = <<>> /\ links_none = TRUE /\ on_progress = "none"
    /\ pc = "idle" /\ i = 0 /\ posts_summary = <<>> /\ all_comments = <<>>
    /\ browser = "none" /\ launches = 0 /\ closes = 0 /\ gotos = 0
    /\ progress_calls = <<>> /\ crawl_log = <<>> /\ outcome = "running"

InitBatch ==
    /\ links_none \in BOOLEAN
    /\ post_links \in (IF links_none THEN {<<>>} ELSE SeqsUpTo(Urls, MaxUrls))
    /\ on_progress \in {"none", "callback"}
    /\ pc = "validate" /\ i = 0
    /\ posts_summary = <<>> /\ all_comments = <<>>
    /\ browser = "none" /\ launches = 0 /\ closes = 0 /\ gotos = 0
    /\ progress_calls = <<>> /\ crawl_log = <<>> /\ outcome = "running"
    /\ ScrollIdle /\ MetricsIdle

\* lines 280-283
Validate ==
    /\ pc = "validate"
    /\ IF check_post_links(post_links, links_none) = "ValueError"
       THEN pc' = "done" /\ outcome' = "ValueError"
       ELSE pc' = "launch" /\ outcome' = outcome
    /\ UNCHANGED <<post_links, links_none, on_progress, i, posts_summary,
                   all_comments, browser, launches, closes, gotos,
                   progress_calls, crawl_log>>
    /\ UNCHANGED <<scrollVars, metricVars>>

\* lines 288-292: the launch returns a browser, or raises before there is one
Launch ==
    /\ pc = "launch"
    /\ \/ browser' = "open" /\ launches' = launches + 1 /\ pc' = "context"
          /\ outcome' = outcome
       \/ browser' = browser /\ launches' = launches /\ pc' = "done"
          /\ outcome' = "raised"
    /\ UNCHANGED <<post_links, links_none, on_progress, i, posts_summary,
                   all_comments, closes, gotos, progress_calls, crawl_log>>
    /\ UNCHANGED <<scrollVars, metricVars>>

\* lines 294-296: context and page creation, either of which may raise
SetupPage ==
    /\ pc = "context"
    /\ \/ pc' = "loop" /\ i' = 1 /\ outcome' = outcome
       \/ pc' = "finally" /\ i' = i /\ outcome' = "raised"
    /\ UNCHANGED <<post_links, links_none, on_progress, posts_summary,
                   all_comments, browser, launches, closes, gotos,
                   progress_calls, crawl_log>>
    /\ UNCHANGED <<scrollVars, metricVars>>

\* variant: a crawl failure leaves the loop (break for continue)
CrawlStepBreakOnFailure(env) ==
    LET url == post_links[i]
        data == crawl_facebook_post(url, env)
    IN  /\ gotos' = gotos + 1
        /\ CASE data.kind = "RuntimeError" ->
                  /\ i' = i /\ pc' = "finally" /\ outcome' = outcome
                  /\ crawl_log' = Append(crawl_log, [url |-> url, ok |-> FALSE,
                                                     comments |-> <<>>])
                  /\ UNCHANGED <<posts_summary, all_comments>>
             [] data.kind = "BaseException" ->
                  /\ i' = i /\ pc' = "finally" /\ outcome' = "raised"
                  /\ UNCHANGED <<posts_summary, all_comments, crawl_log>>
             [] OTHER ->
                  /\ posts_summary' = Append(posts_summary, SummaryRow(data))
                  /\ all_comments' = all_comments \o CommentRows(data)
                  /\ crawl_log' = Append(crawl_log, [url |-> url, ok |-> TRUE,
                                                     comments |-> env.comments])
                  /\ i' = i /\ pc' = "progress" /\ outcome' = outcome

\* lines 298-327: one iteration up to the progress callback
CrawlStep(env) ==
    LET url == post_links[i]
        data == crawl_facebook_post(url, env)
    IN  /\ gotos' = gotos + 1
        /\ CASE data.kind = "RuntimeError" ->
                  \* except RuntimeError: print; continue
                  /\ i' = i + 1 /\ pc' = "loop" /\ outcome' = outcome
                  /\ crawl_log' = Append(crawl_log, [url |-> url, ok |-> FALSE,
                                                     comments |-> <<>>])
                  /\ UNCHANGED <<posts_summary, all_comments>>
             [] data.kind = "BaseException" ->
                  /\ i' = i /\ pc' = "finally" /\ outcome' = "raised"
                  /\ UNCHANGED <<posts_summary, all_comments, crawl_log>>
             [] OTHER ->
                  /\ posts_summary' = Append(posts_summary, SummaryRow(data))
                  /\ all_comments' = all_comments \o CommentRows(data)
                  /\ crawl_log' = Append(crawl_log, [url |-> url, ok |-> TRUE,
                                                     comments |-> env.comments])
                  /\ i' = i /\ pc' = "progress" /\ outcome' = outcome

Crawl ==
    /\ pc = "loop" /\ i <= Len(post_links)
    /\ \E env \in PageEnvs : CrawlStep(env)
    /\ UNCHANGED <<post_links, links_none, on_progress, browser, launches,
                   closes, progress_calls>>
    /\ UNCHANGED <<scrollVars, metricVars>>

\* lines 329-333: the callback (which may raise), then the pause
Progress ==
    /\ pc = "progress"
    /\ \/ /\ on_progress = "none"
          /\ progress_calls' = progress_calls
          /\ i' = i + 1 /\ pc' = "loop" /\ outcome' = outcome
       \/ /\ on_progress = "callback"
          /\ progress_calls' = Append(progress_calls, <<i, Len(post_links)>>)
          /\ \/ i' = i + 1 /\ pc' = "loop" /\ outcome' = outcome
             \/ i' = i /\ pc' = "finally" /\ outcome' = "raised"
    /\ UNCHANGED <<post_links, links_none, on_progress, posts_summary,
                   all_comments, browser, launches, closes, gotos, crawl_log>>
    /\ UNCHANGED <<scrollVars, metricVars>>

\* the for loop is exhausted: fall into the finally clause
LoopEnd ==
    /\ pc = "loop" /\ i > Len(post_links)
    /\ pc' = "finally"
    /\ UNCHANGED <<post_links, links_none, on_progress, i, posts_summary,
                   all_comments, browser, launches, closes, gotos,
                   progress_calls, crawl_log, outcome>>
    /\ UNCHANGED <<scrollVars, metricVars>>

\* variant: browser.close() after the loop instead of in a finally clause
FinallyOnlyOnSuccess ==
    /\ pc = "finally"
    /\ IF outcome = "raised"
       THEN browser' = browser /\ closes' = closes
       ELSE browser' = "closed" /\ closes' = closes + 1
    /\ pc' = "done"
    /\ outcome' = (IF outcome = "raised" THEN "raised" ELSE "returned")
    /\ UNCHANGED <<post_links, links_none, on_progress, i, posts_summary,
                   all_comments, launches, gotos, progress_calls, crawl_log>>
    /\ UNCHANGED <<scrollVars, metricVars>>

\* lines 334-337: browser.close(), then the return or the re-raise
Finally ==
    /\ pc = "finally"
    /\ browser' = "closed" /\ closes' = closes + 1
    /\ pc' = "done"
    /\ outcome' = (IF outcome = "raised" THEN "raised" ELSE "returned")
    /\ UNCHANGED <<post_links, links_none, on_progress, i, posts_summary,
                   all_comments, launches, gotos, progress_calls, crawl_log>>
    /\ UNCHANGED <<scrollVars, metricVars>>

NextBatch == Validate \/ Launch \/ SetupPage \/ Crawl \/ Progress \/ LoopEnd
             \/ Finally

SpecBatch == InitBatch /\ [][NextBatch]_vars

\* ====================================================================
\* extract_comments
\* The comment list is the environment. It shows "loaded" comments, one
\* row of scrollHeight each, out of "total" (Endless: no end). A scrollBy
\* makes it render "inc" more, up to the total; a list that "stalls" may
\* also render nothing on a scroll. The loop only tests two consecutive
\* readings for equality, so growth by whole rows covers each branch.
\* ====================================================================
ScrollCap == 1000
Endless == -1

Min(a, b) == IF a < b THEN a ELSE b

\* the heights scrollHeight can read after one scrollBy
AfterScrollBy(c, n) ==
    {IF c.total = Endless THEN n + c.inc ELSE Min(n + c.inc, c.total)}
    \cup (IF c.stalls THEN {n} ELSE {})

StaticContainers ==
    {[initial |-> n, total |-> n, inc |-> 1, stalls |-> FALSE] : n \in 0..MaxInitial}
StallingContainers ==
    {[initial |-> n, total |-> n + 2, inc |-> 1, stalls |-> TRUE] : n \in 0..MaxInitial}
FixtureContainers ==
    [initial : 0..MaxInitial, total : {FixtureTotal}, inc : {1, 2, 500},
     stalls : {FALSE}]
EndlessContainers ==
    [initial : {0}, total : {Endless}, inc : {1}, stalls : BOOLEAN]

InitScrollWith(cs) ==
    /\ container \in cs
    /\ loaded = container.initial
    /\ spc = "sort"
    /\ previous_height = 0 /\ current_height = 0
    /\ iter = 0 /\ scrolls = 0 /\ nudges = 0 /\ exit_reason = "none"
    /\ comments = -1 /\ read_failed = 0
    /\ BatchIdle /\ MetricsIdle

InitScroll ==
    InitScrollWith(StaticContainers \cup StallingContainers \cup FixtureContainers)
InitScrollAny ==
    InitScrollWith(StaticContainers \cup StallingContainers \cup EndlessContainers)

\* lines 143-150: the "Most relevant" click; absent, clicked or raising,
\* the function goes on
ClickMostRelevant ==
    /\ spc = "sort"
    /\ spc' = "expand"
    /\ UNCHANGED <<container, loaded, previous_height, current_height, iter,
                   scrolls, nudges, exit_reason, comments, read_failed>>
    /\ UNCHANGED <<batchVars, metricVars>>

\* lines 152-161: the "Show all comments" click, likewise
ClickAllComments ==
    /\ spc = "expand"
    /\ spc' = "locate"
    /\ UNCHANGED <<container, loaded, previous_height, current_height, iter,
                   scrolls, nudges, exit_reason, comments, read_failed>>
    /\ UNCHANGED <<batchVars, metricVars>>

\* lines 165-169: the container and its first scrollHeight
Locate ==
    /\ spc = "locate"
    /\ previous_height' = loaded
    /\ spc' = "loop"
    /\ UNCHANGED <<container, loaded, current_height, iter, scrolls, nudges,
                   exit_reason, comments, read_failed>>
    /\ UNCHANGED <<batchVars, metricVars>>

\* variant: a loop without the iteration count (while True)
LoopHeadNoCount ==
    /\ spc = "loop"
    /\ spc' = "scroll"
    /\ UNCHANGED <<container, loaded, previous_height, current_height, iter,
                   scrolls, nudges, exit_reason, comments, read_failed>>
    /\ UNCHANGED <<batchVars, metricVars>>

\* line 171: for _ in range(1000)
LoopHead ==
    /\ spc = "loop"
    /\ IF iter < ScrollCap
       THEN iter' = iter + 1 /\ spc' = "scroll" /\ exit_reason' = exit_reason
       ELSE iter' = iter /\ spc' = "extract" /\ exit_reason' = "cap"
    /\ UNCHANGED <<container, loaded, previous_height, current_height,
                   scrolls, nudges, comments, read_failed>>
    /\ UNCHANGED <<batchVars, metricVars>>

\* lines 172-178 and 188: scrollBy(0, 1500), the reading, the comparison
Scroll ==
    /\ spc = "scroll"
    /\ \E h \in AfterScrollBy(container, loaded) :
          /\ loaded' = h
          /\ current_height' = h
          /\ IF h = previous_height
             THEN spc' = "nudge" /\ previous_height' = previous_height
             ELSE spc' = "loop" /\ previous_height' = h
    /\ scrolls' = scrolls + 1
    /\ UNCHANGED <<container, iter, nudges, exit_reason, comments, read_failed>>
    /\ UNCHANGED <<batchVars, metricVars>>

\* variant: no break after the nudge
NudgeNoBreak ==
    /\ spc = "nudge"
    /\ \E h \in AfterScrollBy(container, loaded) :
          /\ loaded' = h
          /\ current_height' = h
          /\ spc' = "loop" /\ previous_height' = h
    /\ exit_reason' = exit_reason
    /\ scrolls' = scrolls + 1
    /\ nudges' = nudges + 1
    /\ UNCHANGED <<container, iter, comments, read_failed>>
    /\ UNCHANGED <<batchVars, metricVars>>

\* lines 179-188: scrollBy(0, 2500), the reading, the break
Nudge ==
    /\ spc = "nudge"
    /\ \E h \in AfterScrollBy(container, loaded) :
          /\ loaded' = h
          /\ current_height' = h
          /\ IF h = previous_height
             THEN /\ spc' = "extract" /\ exit_reason' = "stable"
                  /\ previous_height' = previous_height
             ELSE /\ spc' = "loop" /\ exit_reason' = exit_reason
                  /\ previous_height' = h
    /\ scrolls' = scrolls + 1
    /\ nudges' = nudges + 1
    /\ UNCHANGED <<container, iter, comments, read_failed>>
    /\ UNCHANGED <<batchVars, metricVars>>

\* lines 189-190: an evaluate of the scroll part raises; "Scroll error" is
\* printed and the function goes on to the extraction
ScrollError ==
    /\ spc \in {"locate", "scroll", "nudge"}
    /\ spc' = "extract"
    /\ exit_reason' = "error"
    /\ UNCHANGED <<container, loaded, previous_height, current_height, iter,
                   scrolls, nudges, comments, read_failed>>
    /\ UNCHANGED <<batchVars, metricVars>>

\* variant: the last rendered comment is left out
ExtractAllButLast ==
    /\ spc = "extract"
    /\ read_failed' = 0
    /\ comments' = IF loaded > 0 THEN loaded - 1 ELSE 0
    /\ spc' = "done"
    /\ UNCHANGED <<container, loaded, previous_height, current_height, iter,
                   scrolls, nudges, exit_reason>>
    /\ UNCHANGED <<batchVars, metricVars>>

\* lines 193-223: one entry per rendered comment element, except those
\* whose read raises (skipped); if listing the elements raises, the outer
\* handler returns the empty list
Extract ==
    /\ spc = "extract"
    /\ \/ \E f \in 0..Min(loaded, MaxReadFail) :
             read_failed' = f /\ comments' = loaded - f
       \/ read_failed' = loaded /\ comments' = 0
    /\ spc' = "done"
    /\ UNCHANGED <<container, loaded, previous_height, current_height, iter,
                   scrolls, nudges, exit_reason>>
    /\ UNCHANGED <<batchVars, metricVars>>

NextScroll == ClickMostRelevant \/ ClickAllComments \/ Locate \/ LoopHead
              \/ Scroll \/ Nudge \/ ScrollError \/ Extract

SpecScroll == InitScroll /\ [][NextScroll]_vars

\* The scroll part alone (lines 163-190), over lists that may never end
\* and may stall on any scroll; a run ends where the extraction starts.
NextScrollLoop == ClickMostRelevant \/ ClickAllComments \/ Locate \/ LoopHead
                  \/ Scroll \/ Nudge \/ ScrollError

SpecScrollAny == InitScrollAny /\ [][NextScrollLoop]_vars


\* ====================================================================
\* Text as Python sees it: a sequence of characters. The operators below
\* are str.lower, str.replace, str.strip, "in", and the three regular
\* expressions of the module, each computed on the characters.
\* ====================================================================
Digits == {"0", "1", "2", "3", "4", "5", "6", "7", "8", "9"}
NumChars == Digits \cup {",", "."}
Whitespace == {" ", "\t"}
UnitChars == {"k", "K", "m", "M"}

DigitVal(c) ==
    CASE c = "0" -> 0 [] c = "1" -> 1 [] c = "2" -> 2 [] c = "3" -> 3
      [] c = "4" -> 4 [] c = "5" -> 5 [] c = "6" -> 6 [] c = "7" -> 7
      [] c = "8" -> 8 [] OTHER -> 9

LowerChar(c) ==
    CASE c = "K" -> "k" [] c = "M" -> "m" [] c = "S" -> "s"
      [] c = "C" -> "c" [] OTHER -> c

Lower(t) == [k \in 1..Len(t) |-> LowerChar(t[k])]
Remove(t, c) == SelectSeq(t, LAMBDA x : x # c)
Contains(t, c) == \E k \in 1..Len(t) : t[k] = c

RECURSIVE StripLeft(_)
StripLeft(t) ==
    IF t # <<>> /\ Head(t) \in Whitespace THEN StripLeft(Tail(t)) ELSE t

RECURSIVE StripRight(_)
StripRight(t) ==
    IF t # <<>> /\ t[Len(t)] \in Whitespace
    THEN StripRight(SubSeq(t, 1, Len(t) - 1)) ELSE t

Strip(t) == StripRight(StripLeft(t))

Max(a, b) == IF a > b THEN a ELSE b

\* the last index of the longest run of characters of "cs" from index k on
\* (k - 1 when t[k] is not one)
RECURSIVE RunEnd(_, _, _)
RunEnd(t, k, cs) ==
    IF k <= Len(t) /\ t[k] \in cs THEN RunEnd(t, k + 1, cs) ELSE k - 1

\* re.search(r"\d[\d,.]*[kKmM]?", t).group(0); <<>> when there is no match
SearchNumber(t) ==
    LET starts == {k \in 1..Len(t) : t[k] \in Digits}
    IN  IF starts = {} THEN <<>>
        ELSE LET b == CHOOSE k \in starts : \A j \in starts : k <= j
                 e == RunEnd(t, b + 1, NumChars)
                 f == IF e + 1 <= Len(t) /\ t[e + 1] \in UnitChars
                      THEN e + 1 ELSE e
             IN  SubSeq(t, b, f)

ShareLabels == {
    <<"s", "h", "a", "r", "e", "s">>,
    <<"c", "h", "i", "a", " ", "s", "ẻ">>,
    <<"l", "ư", "ợ", "t", " ", "c", "h", "i", "a", " ", "s", "ẻ">> }

\* re.search(r"\d[\d,.]*\s+(shares|chia sẻ|lượt chia sẻ)$", t) is not None
SharesSuffix(t) ==
    \E b \in 1..Len(t) :
       /\ t[b] \in Digits
       /\ \E e \in b..Len(t) :
             /\ \A k \in (b + 1)..e : t[k] \in NumChars
             /\ \E w \in (e + 1)..Len(t) :
                   /\ \A k \in (e + 1)..w : t[k] \in Whitespace
                   /\ SubSeq(t, w + 1, Len(t)) \in ShareLabels

RECURSIVE IntOf(_)
IntOf(ds) ==
    IF ds = <<>> THEN 0
    ELSE IntOf(SubSeq(ds, 1, Len(ds) - 1)) * 10 + DigitVal(ds[Len(ds)])

RECURSIVE Pow10(_)
Pow10(n) == IF n = 0 THEN 1 ELSE 10 * Pow10(n - 1)

ParseRaises == -1

\* int(float(t) * 10^n) for t of digits and dots; float() raises on a
\* second dot or on no digit. The product is computed exactly, which is
\* what the binary float gives for the texts of this model.
ScaledFloat(t, n) ==
    LET dots == {k \in 1..Len(t) : t[k] = "."}
    IN  IF \/ Cardinality(dots) > 1
           \/ \E k \in 1..Len(t) : t[k] \notin Digits \cup {"."}
           \/ \A k \in 1..Len(t) : t[k] \notin Digits
        THEN ParseRaises
        ELSE LET d == IF dots = {} THEN Len(t) + 1 ELSE CHOOSE k \in dots : TRUE
                 whole == SubSeq(t, 1, d - 1)
                 frac == SubSeq(t, d + 1, Len(t))
                 kept == SubSeq(frac, 1, Min(n, Len(frac)))
             IN  IntOf(whole) * Pow10(n) + IntOf(kept) * Pow10(n - Len(kept))

\* re.findall(r"\d+", t)[0] as an int; IndexError when t has no digit
FirstDigitRun(t) ==
    LET starts == {k \in 1..Len(t) : t[k] \in Digits}
    IN  IF starts = {} THEN ParseRaises
        ELSE LET b == CHOOSE k \in starts : \A j \in starts : k <= j
             IN  IntOf(SubSeq(t, b, RunEnd(t, b, Digits)))

\* lines 36-42
parse_facebook_number(num_str) ==
    LET t == Strip(Remove(Lower(num_str), ","))
    IN  IF Contains(t, "k") THEN ScaledFloat(Remove(t, "k"), 3)
        ELSE IF Contains(t, "m") THEN ScaledFloat(Remove(t, "m"), 6)
        ELSE FirstDigitRun(t)

\* ====================================================================
\* extract_engagement_metrics
\* An element of the page: is_visible() answers or raises, inner_text()
\* answers "text" or raises.
\* ====================================================================
VisRaises == [vis |-> "raise", read |-> "ok", text |-> <<>>]
Shown(t) == [vis |-> "visible", read |-> "ok", text |-> t]
ReadRaises(t) == [vis |-> "visible", read |-> "raise", text |-> t]

ReactionElems == {Hidden, VisRaises, Shown(<<"1", ".", "2", "K">>),
                  Shown(<<"1", ".", "2", ".", "3", "k">>)}
CommentEnElems == {Hidden, ReadRaises(<<"7">>),
                   Shown(<<"1", "5", " ", "c", "o", "m", "m", "e", "n", "t", "s">>)}
CommentViElems == {Hidden,
                   Shown(<<"b", "ì", "n", "h", " ", "l", "u", "ậ", "n">>),
                   Shown(<<"3", "M", " ", "b", "ì", "n", "h", " ", "l", "u", "ậ", "n">>)}
ShareElems == {Hidden, ReadRaises(<<"9", " ", "s", "h", "a", "r", "e", "s">>),
               Shown(<<"3", " ", "s", "h", "a", "r", "e", "s">>),
               Shown(<<" ", "1", ",", "0", "1", "0", " ", "S", "h", "a", "r", "e", "s">>),
               Shown(<<"5", " ", "l", "ư", "ợ", "t", " ", "c", "h", "i", "a", " ", "s", "ẻ">>),
               Shown(<<"7", "k", " ", "s", "h", "a", "r", "e", "s">>),
               Shown(<<"s", "h", "a", "r", "e">>)}

Pages ==
    [wait : {"ok", "timeout"}, reaction : ReactionElems,
     comments : {<<a, b>> : a \in CommentEnElems, b \in CommentViElems},
     shares_all : {"ok", "raise"},
     shares : SeqsUpTo(ShareElems, MaxShareSpans)]

NoValue == -1

\* lines 60-67 for one selector: the value when the selector yields one
\* (the loop then breaks), NoValue when the loop goes on to the next
ReadMetric(el) ==
    IF el.vis # "visible" \/ el.read = "raise" THEN NoValue
    ELSE LET match == SearchNumber(Lower(Strip(el.text)))
         IN  IF match = <<>> THEN NoValue
             ELSE parse_facebook_number(match)

\* lines 57-69
RECURSIVE extract_from_selectors(_, _)
extract_from_selectors(els, current) ==
    IF els = <<>> THEN current
    ELSE LET val == ReadMetric(Head(els))
         IN  IF val # NoValue THEN Max(current, val)
             ELSE extract_from_selectors(Tail(els), current)

\* lines 84-91 for one element of possible_share_spans.all()
ReadShare(el) ==
    IF el.vis # "visible" \/ el.read = "raise" THEN NoValue
    ELSE LET text == Lower(Strip(el.text))
         IN  IF ~SharesSuffix(text) THEN NoValue
             ELSE IF SearchNumber(text) = <<>> THEN NoValue
             ELSE parse_facebook_number(SearchNumber(text))

InitMetrics ==
    /\ page \in Pages
    /\ mpc = "wait"
    /\ metrics = [reactions_count |-> 0, comments_count |-> 0, shares_count |-> 0]
    /\ share_idx = 0 /\ mresult = "running"
    /\ BatchIdle /\ ScrollIdle

\* lines 71-74: wait_for_selector; a timeout is passed over
WaitForReactions ==
    /\ mpc = "wait"
    /\ mpc' = "reactions"
    /\ UNCHANGED <<page, metrics, share_idx, mresult>>
    /\ UNCHANGED <<batchVars, scrollVars>>

\* line 75
Reactions ==
    /\ mpc = "reactions"
    /\ metrics' = [metrics EXCEPT !.reactions_count =
                      extract_from_selectors(<<page.reaction>>, @)]
    /\ mpc' = "comments"
    /\ UNCHANGED <<page, share_idx, mresult>>
    /\ UNCHANGED <<batchVars, scrollVars>>

\* line 77
Comments ==
    /\ mpc = "comments"
    /\ metrics' = [metrics EXCEPT !.comments_count =
                      extract_from_selectors(page.comments, @)]
    /\ mpc' = "shares"
    /\ UNCHANGED <<page, share_idx, mresult>>
    /\ UNCHANGED <<batchVars, scrollVars>>

\* lines 79-82: possible_share_spans.all(), outside any try
ListShares ==
    /\ mpc = "shares"
    /\ IF page.shares_all = "raise"
       THEN mpc' = "done" /\ mresult' = "raised" /\ share_idx' = share_idx
       ELSE mpc' = "scan" /\ mresult' = mresult /\ share_idx' = 1
    /\ UNCHANGED <<page, metrics>>
    /\ UNCHANGED <<batchVars, scrollVars>>

\* lines 82-93: one element of the for loop
ScanShare ==
    /\ mpc = "scan" /\ share_idx <= Len(page.shares)
    /\ LET val == ReadShare(page.shares[share_idx])
       IN  IF val # NoValue
           THEN /\ metrics' = [metrics EXCEPT !.shares_count = Max(@, val)]
                /\ mpc' = "return" /\ share_idx' = share_idx
           ELSE /\ metrics' = metrics
                /\ mpc' = "scan" /\ share_idx' = share_idx + 1
    /\ UNCHANGED <<page, mresult>>
    /\ UNCHANGED <<batchVars, scrollVars>>

ScanEnd ==
    /\ mpc = "scan" /\ share_idx > Len(page.shares)
    /\ mpc' = "return"
    /\ UNCHANGED <<page, metrics, share_idx, mresult>>
    /\ UNCHANGED <<batchVars, scrollVars>>

\* line 95
ReturnMetrics ==
    /\ mpc = "return"
    /\ mpc' = "done" /\ mresult' = "returned"
    /\ UNCHANGED <<page, metrics, share_idx>>
    /\ UNCHANGED <<batchVars, scrollVars>>

NextMetrics == WaitForReactions \/ Reactions \/ Comments \/ ListShares
               \/ ScanShare \/ ScanEnd \/ ReturnMetrics

SpecMetrics == InitMetrics /\ [][NextMetrics]_vars


\* ====================================================================
\* Properties of run_facebook_crawling (checked under SpecBatch)
\* ====================================================================
\* the successful crawls, in input order
Succeeded == SelectSeq(crawl_log, LAMBDA e : e.ok)

\* C1: with a progress callback, after every processed URL (crawled or
\* skipped on a crawl failure) the callback has been invoked exactly once
\* per processed URL, with (k, N) for the k-th URL in input order.
C1_ProgressAfterEveryUrl ==
    (on_progress = "callback" /\ pc = "loop")
        => progress_calls =
             [k \in 1..Len(crawl_log) |-> <<k, Len(post_links)>>]

\* C2: a URL whose crawl raises the crawl failure adds nothing to either
\* collection and the loop goes on; the summaries are exactly one row per
\* successfully crawled URL, in input order, total_comments_crawled being
\* the length of that post's comment sequence.
C2_SkipAndSummaries ==
    /\ Len(posts_summary) = Len(Succeeded)
    /\ \A k \in 1..Len(posts_summary) :
          /\ posts_summary[k].url = Succeeded[k].url
          /\ posts_summary[k].total_comments_crawled = Len(Succeeded[k].comments)
    /\ \A k \in 1..Len(all_comments) :
          \E j \in 1..Len(Succeeded) : all_comments[k].url = Succeeded[j].url
    /\ (Succeeded = <<>>) => (all_comments = <<>>)
    /\ \A k \in 1..Len(crawl_log) : crawl_log[k].url = post_links[k]
    /\ outcome = "returned" => Len(crawl_log) = Len(post_links)

C2_Witness ==
    /\ outcome = "returned"
    /\ Len(crawl_log) = 2
    /\ ~crawl_log[1].ok
    /\ crawl_log[2].ok
    /\ Len(posts_summary) = 1
    /\ posts_summary[1].total_comments_crawled = 2

\* the comment rows a successful crawl owes
ExpectedCommentRows(e) ==
    IF Len(e.comments) = 0
    THEN <<[url |-> e.url, comment_text |-> ""]>>
    ELSE [k \in 1..Len(e.comments) |->
            [url |-> e.url, comment_text |-> e.comments[k]]]

\* C3: every successfully crawled post contributes one comment row per
\* extracted comment, in extraction order, or exactly one row with
\* comment_text = "" when it has none; so its url is in the comment rows.
C3_CommentRows ==
    /\ all_comments =
         Flatten([k \in 1..Len(Succeeded) |-> ExpectedCommentRows(Succeeded[k])])
    /\ \A j \in 1..Len(Succeeded) :
          \E k \in 1..Len(all_comments) : all_comments[k].url = Succeeded[j].url

C3_Witness ==
    /\ outcome = "returned"
    /\ Len(Succeeded) = 2
    /\ Succeeded[1].comments = <<>>
    /\ Succeeded[2].comments = <<"b", "a">>
    /\ Len(all_comments) = 3
    /\ all_comments[1].comment_text = ""

\* the input is rejected by the URL check
InvalidInput ==
    \/ links_none
    \/ post_links = <<>>
    \/ \E k \in 1..Len(post_links) : ~MatchesPostUrl(post_links[k])

\* C4: when the list is absent or empty, or a URL at any position fails
\* the post URL check, the run ends in the validation error and nothing
\* else has happened: no launch, no navigation, no row, no callback.
C4_ValidationAllOrNothing ==
    InvalidInput =>
        /\ launches = 0 /\ gotos = 0 /\ browser = "none"
        /\ posts_summary = <<>> /\ all_comments = <<>>
        /\ progress_calls = <<>> /\ crawl_log = <<>>
        /\ pc \in {"validate", "done"}
        /\ pc = "done" => outcome = "ValueError"

C4_Witness ==
    /\ outcome = "ValueError"
    /\ Len(post_links) = 2
    /\ MatchesPostUrl(post_links[1])
    /\ ~MatchesPostUrl(post_links[2])

\* C9: once the browser has been launched, it is closed exactly once on
\* every exit path: normal return, skipped crawl failures, and exceptions
\* raised by context or page creation, by the crawl, or by the callback.
C9_BrowserClosedOnce ==
    /\ closes <= launches
    /\ closes <= 1
    /\ (pc = "done" /\ launches >= 1) => (closes = 1 /\ browser = "closed")
    /\ browser = "open" => pc # "done"

C9_Witness ==
    /\ pc = "done"
    /\ outcome = "raised"
    /\ launches = 1
    /\ closes = 1
    /\ progress_calls = <<<<2, 2>>>>
    /\ Len(crawl_log) = 2 /\ ~crawl_log[1].ok /\ crawl_log[2].ok

\* ====================================================================
\* Properties of extract_comments
\* ====================================================================
\* the list has rendered nothing since the function started
HeightNeverChanged == loaded = container.initial

\* C5 (SpecScroll): while the container's height has never changed,
\* the loop has made at most 2 scroll actions (one scroll, one nudge), all
\* in its first iteration; a static container therefore leaves the loop
\* there and never runs to the cap.
C5_StaticStopsInTwo ==
    HeightNeverChanged =>
        /\ scrolls <= 2 /\ nudges <= 1 /\ iter <= 1
        /\ (scrolls = 2 /\ nudges = 1) =>
              (spc \in {"extract", "done"} /\ exit_reason = "stable")
        /\ exit_reason # "cap"

C5_Witness ==
    /\ container \in StaticContainers
    /\ container.total = 2
    /\ spc = "done"
    /\ exit_reason = "stable"
    /\ scrolls = 2 /\ nudges = 1 /\ iter = 1

\* a bound on the steps the scroll part still has to make
ScrollMeasure ==
    CASE spc = "sort" -> 3 * ScrollCap + 5
      [] spc = "expand" -> 3 * ScrollCap + 4
      [] spc = "locate" -> 3 * ScrollCap + 3
      [] spc = "loop" -> 3 * (ScrollCap - iter) + 2
      [] spc = "scroll" -> 3 * (ScrollCap - iter) + 4
      [] spc = "nudge" -> 3 * (ScrollCap - iter) + 3
      [] spc = "extract" -> 1
      [] OTHER -> 0

\* C6 (SpecScrollAny): whatever the container's height does, also when it
\* grows on every scroll without end, the loop runs at most 1000
\* iterations and 2000 scroll actions; every step lowers ScrollMeasure, a
\* natural number, so the loop terminates; it is never stuck before its
\* end, and leaving it (break, cap or scroll error) starts the extraction.
C6_ScrollLoopTerminates ==
    /\ [](/\ iter <= 1000 /\ scrolls <= 2000
          /\ ScrollMeasure >= 0
          /\ (spc # "extract") => ENABLED NextScrollLoop
          /\ (exit_reason # "none") <=> (spc = "extract"))
    /\ [][ScrollMeasure' < ScrollMeasure]_vars

C6_Witness ==
    /\ container.total = Endless
    /\ spc = "extract"
    /\ exit_reason = "cap"
    /\ iter = 1000
    /\ scrolls = 2000
    /\ nudges = 1000
    /\ loaded = 1000

\* the fixed-increment list, with no scroll error and no failed read
CleanFixtureRun ==
    /\ container \in FixtureContainers
    /\ exit_reason # "error"
    /\ read_failed = 0

\* C7 as stated (SpecScroll): on the 1500-comment list growing by a fixed
\* increment per scroll, the loop exits only on a height unchanged across
\* a scroll and a nudge, and the returned list has as many comments as the
\* list's total.
C7_ReturnsAllComments ==
    (CleanFixtureRun /\ spc = "done") =>
        (exit_reason = "stable" /\ comments = container.total)

\* what 1000 growing scrolls can render of list c
LoadedWithinCap(c) == Min(c.total, c.initial + ScrollCap * c.inc)

\* C7 as amended (SpecScroll): on that list, absent scroll and read errors,
\* the loop exits on a height unchanged across a scroll and a nudge only
\* once the whole list is rendered, or else at the 1000-iteration cap; the
\* returned list has min(total, initial + 1000 * increment) comments, the
\* total when the list is rendered within the 1000 iterations.
C7_ReturnsLoadedWithinCap ==
    CleanFixtureRun =>
        /\ spc \in {"extract", "done"} => exit_reason \in {"stable", "cap"}
        /\ exit_reason = "stable" =>
              (loaded = container.total /\ nudges = 1)
        /\ exit_reason = "cap" =>
              (iter = ScrollCap /\ loaded = LoadedWithinCap(container))
        /\ spc = "done" => comments = LoadedWithinCap(container)

C7_Witness ==
    /\ container \in FixtureContainers
    /\ container.inc = 2
    /\ container.initial = 0
    /\ spc = "done"
    /\ exit_reason = "stable"
    /\ iter = 751
    /\ scrolls = 752
    /\ comments = container.total

\* ====================================================================
\* Properties of extract_engagement_metrics (checked under SpecMetrics)
\* ====================================================================
\* an element that is missing, hidden or raises when read
Unreadable(el) == el.vis # "visible" \/ el.read = "raise"

\* C8: extract_engagement_metrics never raises, whichever page lookup
\* fails (the listing of the share elements included); it returns the
\* three counts, and a metric whose elements are all missing or unreadable
\* is 0.
C8_MetricsNeverRaises ==
    /\ mresult # "raised"
    /\ mpc = "done" =>
          /\ mresult = "returned"
          /\ Unreadable(page.reaction) => metrics.reactions_count = 0
          /\ (\A k \in 1..2 : Unreadable(page.comments[k]))
                => metrics.comments_count = 0
          /\ (\A k \in 1..Len(page.shares) : Unreadable(page.shares[k]))
                => metrics.shares_count = 0

\* the numbers of the share elements the loop body accepts
AcceptedShares == {ReadShare(page.shares[k]) : k \in 1..Len(page.shares)} \ {NoValue}

\* C10: the returned shares_count is the maximum of the parsed numbers of
\* all visible share elements whose text passes the suffix check, 0 when
\* none passes.
C10_SharesIsMaximum ==
    mresult = "returned" =>
        /\ \A v \in AcceptedShares : metrics.shares_count >= v
        /\ metrics.shares_count \in AcceptedShares \cup {0}

====
